---- MODULE Spec2Model ----
(***************************************************************************)
(* Model of the spatial graph pipeline of src/src/graph_analysis.rs:       *)
(* haversine_distance, construct_graph, analyze_centrality and             *)
(* bfs_total_distance, driven as src/src/main.rs drives them (main and the *)
(* unit tests).                                                            *)
(*                                                                         *)
(* Numbers.  The program computes in f64.  The model computes in fixed     *)
(* point on integers:                                                      *)
(*   - a coordinate is a pair of integers in microdegrees                  *)
(*     (25.276987 degrees is 25276987);                                    *)
(*   - angles and the values of sin, cos, sqrt are integers in units of    *)
(*     1/Scale (Scale = 10^9);                                             *)
(*   - a distance is an integer in units of 1/UnitsPerKm km (10 metres);   *)
(*   - a centrality score is an exact fraction <<num, den>>.               *)
(* All products are formed by FMulQR, which never leaves 32 bits.          *)
(* The series used for sin, cos and atan are truncated; for points that    *)
(* are less than some hundreds of km apart the distance differs from the   *)
(* f64 value by less than a metre before it is rounded to a unit.          *)
(***************************************************************************)
EXTENDS Integers, Sequences, FiniteSets, TLC

-----------------------------------------------------------------------------
(* Fixed-point arithmetic standing for the f64 operations of               *)
(* haversine_distance.                                                     *)

Scale == 1000000000

UnitsPerKm == 100

(* the inclusion radius of construct_graph, 10.0 km *)
RadiusKm == 10

Abs(x) == IF x < 0 THEN -x ELSE x

Sign(x) == IF x < 0 THEN -1 ELSE 1

(* <<q, r>> with a*b = q*Scale + r and 0 <= r < Scale, for a, b >= 0: the  *)
(* exact product of two values of scale Scale, formed on three-digit limbs *)
(* so that no intermediate value leaves 32 bits.                           *)
FMulQR(a, b) ==
    LET a0 == a % 1000
        a1 == (a \div 1000) % 1000
        a2 == a \div 1000000
        b0 == b % 1000
        b1 == (b \div 1000) % 1000
        b2 == b \div 1000000
        t0 == a0 * b0
        t1 == a1 * b0 + a0 * b1 + (t0 \div 1000)
        t2 == a2 * b0 + a1 * b1 + a0 * b2 + (t1 \div 1000)
    IN  <<a2 * b2 * 1000 + a2 * b1 + a1 * b2 + (t2 \div 1000),
          (t2 % 1000) * 1000000 + (t1 % 1000) * 1000 + (t0 % 1000)>>

(* the f64 product of two values of scale Scale, truncated toward zero *)
FMul(a, b) == Sign(a) * Sign(b) * FMulQR(Abs(a), Abs(b))[1]

(* f64::to_radians: microdegrees to radians; pi/180 = 0.01745329252, so    *)
(* one microdegree is 17.45329252 units of 1/Scale                         *)
to_radians(udeg) == udeg * 17 + FMul(udeg, 453292520)

(* a / n truncated toward zero, n > 0 *)
TDiv(a, n) == Sign(a) * (Abs(a) \div n)

(* f64::sin, by its series up to x^9 *)
sin(x) ==
    LET x2 == FMul(x, x)
        x3 == FMul(x2, x)
        x5 == FMul(x3, x2)
        x7 == FMul(x5, x2)
        x9 == FMul(x7, x2)
    IN  x - TDiv(x3, 6) + TDiv(x5, 120) - TDiv(x7, 5040) + TDiv(x9, 362880)

(* f64::cos, by its series up to x^10 *)
cos(x) ==
    LET x2  == FMul(x, x)
        x4  == FMul(x2, x2)
        x6  == FMul(x4, x2)
        x8  == FMul(x6, x2)
        x10 == FMul(x8, x2)
    IN  Scale - (x2 \div 2) + (x4 \div 24) - (x6 \div 720) + (x8 \div 40320)
          - (x10 \div 3628800)

(* A value in 0.0 .. 1.0 kept to double precision: <<hi, lo>> stands for   *)
(* (hi*Scale + lo) / Scale^2.  The haversine term a is of the order of     *)
(* 10^-6 for points some km apart, so it needs the extra digits.           *)

(* f64::powi(2) *)
powi2(x) == FMulQR(Abs(x), Abs(x))

(* the product of a double-precision value p and a value c of scale Scale *)
Mul2(p, c) ==
    LET h == FMulQR(p[1], c)
        l == h[2] + FMulQR(p[2], c)[1]
    IN  <<h[1] + (l \div Scale), l % Scale>>

(* the sum of two double-precision values *)
Add2(p, q) ==
    LET l == p[2] + q[2]
    IN  <<p[1] + q[1] + (l \div Scale), l % Scale>>

(* 1.0 - p for a double-precision value p *)
OneMinus2(p) ==
    IF p[1] >= Scale THEN <<0, 0>>
    ELSE IF p[2] = 0 THEN <<Scale - p[1], 0>>
    ELSE <<Scale - p[1] - 1, Scale - p[2]>>

(* the largest q in lo..hi-1 with q*m <= v[1]*Scale + v[2] (q*q when m is  *)
(* 0), by bisection                                                        *)
RECURSIVE QuotSearch(_, _, _, _)
QuotSearch(v, m, lo, hi) ==
    IF hi - lo <= 1 THEN lo
    ELSE LET mid == lo + ((hi - lo) \div 2)
             p   == FMulQR(mid, IF m = 0 THEN mid ELSE m)
         IN  IF p[1] < v[1] \/ (p[1] = v[1] /\ p[2] <= v[2])
             THEN QuotSearch(v, m, mid, hi)
             ELSE QuotSearch(v, m, lo, mid)

(* f64::sqrt of a double-precision value: the largest s of scale Scale     *)
(* with s*s <= v                                                           *)
sqrt(v) == QuotSearch(v, 0, 0, Scale + 1)

(* the f64 quotient y / x for 0 <= y <= x, x > 0: the largest q with       *)
(* q*x <= y*Scale                                                          *)
FDiv(y, x) == QuotSearch(<<y, 0>>, x, 0, Scale + 1)

(* pi/2 *)
HalfPi == 1570796327

(* atan of t in 0..Scale, by its series up to t^9 *)
AtanSeries(t) ==
    LET t2 == FMul(t, t)
        t3 == FMul(t2, t)
        t5 == FMul(t3, t2)
        t7 == FMul(t5, t2)
        t9 == FMul(t7, t2)
    IN  t - (t3 \div 3) + (t5 \div 5) - (t7 \div 7) + (t9 \div 9)

(* f64::atan2(y, x) for y >= 0 and x >= 0 *)
atan2(y, x) ==
    IF y = 0 THEN 0
    ELSE IF y <= x THEN AtanSeries(FDiv(y, x))
    ELSE HalfPi - AtanSeries(FDiv(x, y))

(* r = 6371.0, Earth's radius in kilometers *)
EarthRadiusKm == 6371

(* haversine_distance(coord1, coord2): great-circle distance of two        *)
(* coordinates <<lat, lon>> given in microdegrees, in units of             *)
(* 1/UnitsPerKm km, rounded to the nearest unit                            *)
haversine_distance(coord1, coord2) ==
    LET lat1 == coord1[1]
        lon1 == coord1[2]
        lat2 == coord2[1]
        lon2 == coord2[2]
        r    == EarthRadiusKm * UnitsPerKm * 10
        dlat == to_radians(lat2 - lat1)
        dlon == to_radians(lon2 - lon1)
        a    == Add2(powi2(sin(TDiv(dlat, 2))),
                     Mul2(powi2(sin(TDiv(dlon, 2))),
                          FMul(cos(to_radians(lat1)), cos(to_radians(lat2)))))
        c    == 2 * atan2(sqrt(a), sqrt(OneMinus2(a)))
    IN  (FMul(r, c) + 5) \div 10

-----------------------------------------------------------------------------
(* Inputs.                                                                 *)

(* Option<f64>: <<>> is None, <<v>> is Some(v) *)
None == <<>>

Some(v) == <<v>>

is_some(o) == o # None

unwrap(o) == o[1]

(* the three coordinates used by the tests of main.rs, and a fourth one    *)
(* that lies 10.00 km from the first and 10.01 km from the third           *)
CoordA == <<25276987, 55296249>>

CoordB == <<25204849, 55270783>>

CoordC == <<25171356, 55212227>>

CoordD == <<25260500, 55198500>>

Coords == {CoordA, CoordB, CoordC, CoordD}

(* struct Property, the fields construct_graph reads *)
Property(lat, lon) == [latitude |-> lat, longitude |-> lon]

(* the records process_data can deliver: both coordinates parsed, or one   *)
(* of them missing                                                         *)
Records ==
    {Property(Some(c[1]), Some(c[2])) : c \in Coords}
      \cup {Property(None, Some(CoordA[2])), Property(Some(CoordA[1]), None)}

MaxRecords == 3

MaxSample == 4

MaxTestEdges == 3

DataSeqs == UNION {[1..n -> Records] : n \in 0..MaxRecords}

(* the nodes and edge weights (5.0, 7.0 and 13.0 km) of the graphs the     *)
(* tests build by hand                                                     *)
TestCoords == <<CoordA, CoordB, CoordC>>

TestWeights == {5 * UnitsPerKm, 7 * UnitsPerKm, 13 * UnitsPerKm}

-----------------------------------------------------------------------------
(* petgraph::graph::Graph<(f64, f64), f64>, as Graph::new() makes it:      *)
(* a directed graph.  nodes[i + 1] is the weight of NodeIndex i; edges is  *)
(* the list of edges in the order add_edge was called.                     *)

EmptyGraph == [nodes |-> <<>>, edges |-> <<>>]

add_node(g, coordinates) == [g EXCEPT !.nodes = Append(@, coordinates)]

add_edge(g, a, b, weight) ==
    [g EXCEPT !.edges = Append(@, [source |-> a, target |-> b, weight |-> weight])]

node_count(g) == Len(g.nodes)

edge_count(g) == Len(g.edges)

node_indices(g) == 0..(node_count(g) - 1)

Reverse(seq) == [k \in 1..Len(seq) |-> seq[Len(seq) + 1 - k]]

(* Graph::edges(a) of a directed graph: the edges going out of a, the most *)
(* recently added first                                                    *)
edges(g, a) ==
    LET Outgoing(e) == e.source = a
    IN  Reverse(SelectSeq(g.edges, Outgoing))

-----------------------------------------------------------------------------
(* construct_graph *)

(* the filter of the first loop *)
has_coordinates(p) == is_some(p.latitude) /\ is_some(p.longitude)

(* a variant of add_nodes without the filter: a missing coordinate is read *)
(* as 0.0                                                                  *)
RECURSIVE add_nodes_unfiltered(_, _)
add_nodes_unfiltered(g, data) ==
    IF data = <<>> THEN g
    ELSE LET lat == IF is_some(Head(data).latitude)
                    THEN unwrap(Head(data).latitude) ELSE 0
             lon == IF is_some(Head(data).longitude)
                    THEN unwrap(Head(data).longitude) ELSE 0
         IN  add_nodes_unfiltered(add_node(g, <<lat, lon>>), Tail(data))

(* first loop: one node per record that passes the filter, in input order *)
RECURSIVE add_nodes(_, _)
add_nodes(g, data) ==
    IF data = <<>> THEN g
    ELSE IF has_coordinates(Head(data))
    THEN add_nodes(add_node(g, <<unwrap(Head(data).latitude),
                                 unwrap(Head(data).longitude)>>),
                   Tail(data))
    ELSE add_nodes(g, Tail(data))

(* a variant of within_radius with the strict comparison *)
within_radius_strict(distance) == distance < RadiusKm * UnitsPerKm

(* a variant of within_radius with the policy of the other construct_graph *)
(* of the repository: distance < 50.0                                      *)
within_radius_50(distance) == distance < 50 * UnitsPerKm

(* the test of the second loop: distance <= 10.0 *)
within_radius(distance) == distance <= RadiusKm * UnitsPerKm

(* a variant of first_j: for j in i..nodes.len() *)
first_j_same(i) == i

(* the first j of the inner loop: for j in i + 1..nodes.len() *)
first_j(i) == i + 1

(* second loop: for i in 0..n, for j in i + 1..n, in that order *)
RECURSIVE connect_nodes(_, _, _)
connect_nodes(g, i, j) ==
    IF i >= node_count(g) THEN g
    ELSE IF j >= node_count(g) THEN connect_nodes(g, i + 1, first_j(i + 1))
    ELSE LET distance == haversine_distance(g.nodes[i + 1], g.nodes[j + 1])
         IN  IF within_radius(distance)
             THEN connect_nodes(add_edge(g, i, j, distance), i, j + 1)
             ELSE connect_nodes(g, i, j + 1)

construct_graph(data) == connect_nodes(add_nodes(EmptyGraph, data), 0, first_j(0))

-----------------------------------------------------------------------------
(* analyze_centrality: scores.  A score is the fraction <<num, den>>; with *)
(* distances in units of 1/UnitsPerKm km, 1.0 / total_distance is          *)
(* UnitsPerKm / total.  <<n, 0>> with n > 0 stands for the f64 infinity.   *)

(* a variant of centrality without the test total_distance > 0.0 *)
centrality_unguarded(total) == <<UnitsPerKm, total>>

centrality(total) == IF total > 0 THEN <<UnitsPerKm, total>> ELSE <<0, 1>>

(* x >= y on scores *)
ScoreGeq(x, y) == x[1] * y[2] >= y[1] * x[2]

(* a variant of sorts_before with the comparison a.1.partial_cmp(&b.1) *)
sorts_before_ascending(a, b) == ~ ScoreGeq(a[2], b[2])

(* the order of sort_by(|a, b| b.1.partial_cmp(&a.1)): a goes before b *)
(* when a's score is strictly larger                                       *)
sorts_before(a, b) == ~ ScoreGeq(b[2], a[2])

(* slice::sort_by is a stable sort: an entry is placed behind every entry  *)
(* that does not sort after it                                             *)
RECURSIVE InsertSorted(_, _)
InsertSorted(sorted, e) ==
    IF sorted = <<>> THEN <<e>>
    ELSE IF sorts_before(e, Head(sorted)) THEN <<e>> \o sorted
    ELSE <<Head(sorted)>> \o InsertSorted(Tail(sorted), e)

RECURSIVE sort_by(_)
sort_by(scores) ==
    IF scores = <<>> THEN <<>>
    ELSE InsertSorted(sort_by(SubSeq(scores, 1, Len(scores) - 1)),
                      scores[Len(scores)])

Min(x, y) == IF x <= y THEN x ELSE y

(* a variant of take that ignores sample_size *)
take_all(g, k) == node_count(g)

(* nodes.iter().take(sample_size): how many nodes the loop visits *)
take(g, k) == Min(k, node_count(g))

-----------------------------------------------------------------------------
(* State.                                                                  *)
(*   pc     where the program is: "main" (main, before construct_graph),   *)
(*          "test" (a test building a graph by hand), "graph" (the graph   *)
(*          is built), "analyze" (in the loop of analyze_centrality),      *)
(*          "bfs" (in the loop of bfs_total_distance), "done"              *)
(*   caller who called bfs_total_distance: "analyze" or "test"             *)
(*   popped, marked  logs of a traversal: every entry taken from the       *)
(*          queue, and every entry whose node was marked visited           *)

VARIABLES pc, data, graph, sample_size, centrality_scores, caller,
          start_node, visited, queue, total_distance, popped, marked

vars == <<pc, data, graph, sample_size, centrality_scores, caller,
          start_node, visited, queue, total_distance, popped, marked>>

bfs_vars == <<start_node, visited, queue, total_distance, popped, marked>>

Init ==
    /\ \/ pc = "main" /\ data \in DataSeqs
       \/ pc = "test" /\ data = <<>>
    /\ graph = EmptyGraph
    /\ sample_size = 0
    /\ centrality_scores = <<>>
    /\ caller = "none"
    /\ start_node = 0
    /\ visited = {}
    /\ queue = <<>>
    /\ total_distance = 0
    /\ popped = <<>>
    /\ marked = <<>>

(* main: let graph = construct_graph(&processed_data[..]) *)
ConstructGraph ==
    /\ pc = "main"
    /\ graph' = construct_graph(data)
    /\ pc' = "graph"
    /\ UNCHANGED <<data, sample_size, centrality_scores, caller, bfs_vars>>

(* tests: graph.add_node(..) for the three test coordinates *)
TestAddNode ==
    /\ pc = "test"
    /\ node_count(graph) < Len(TestCoords)
    /\ graph' = add_node(graph, TestCoords[node_count(graph) + 1])
    /\ UNCHANGED <<pc, data, sample_size, centrality_scores, caller, bfs_vars>>

(* tests: graph.add_edge(a, b, weight), between two different nodes that  *)
(* no edge yet goes from a to b                                            *)
TestAddEdge ==
    /\ pc = "test"
    /\ node_count(graph) = Len(TestCoords)
    /\ edge_count(graph) < MaxTestEdges
    /\ \E a \in node_indices(graph), b \in node_indices(graph), w \in TestWeights :
          /\ a # b
          /\ \A k \in 1..edge_count(graph) :
                ~ (graph.edges[k].source = a /\ graph.edges[k].target = b)
          /\ graph' = add_edge(graph, a, b, w)
    /\ UNCHANGED <<pc, data, sample_size, centrality_scores, caller, bfs_vars>>

(* the graph can be handed to analyze_centrality or bfs_total_distance *)
GraphReady ==
    \/ pc = "graph"
    \/ pc = "test" /\ node_count(graph) = Len(TestCoords)

(* the first lines of bfs_total_distance(graph, start) *)
BfsEnter(start) ==
    /\ start_node' = start
    /\ visited' = {}
    /\ queue' = <<[node |-> start, distance |-> 0]>>
    /\ total_distance' = 0
    /\ popped' = <<>>
    /\ marked' = <<>>

(* analyze_centrality(&graph, k) is called; its loop has not yet run.      *)
(* test_analyze_centrality passes the number of nodes; main passes a       *)
(* constant, here any k up to MaxSample.                                   *)
CallAnalyze ==
    /\ GraphReady
    /\ \E k \in (IF pc = "test" THEN {node_count(graph)} ELSE 0..MaxSample) :
          sample_size' = k
    /\ centrality_scores' = <<>>
    /\ pc' = "analyze"
    /\ UNCHANGED <<data, graph, caller, bfs_vars>>

(* the loop of analyze_centrality takes the next node and calls            *)
(* bfs_total_distance(graph, *node)                                        *)
AnalyzeNode ==
    /\ pc = "analyze"
    /\ Len(centrality_scores) < take(graph, sample_size)
    /\ BfsEnter(Len(centrality_scores))
    /\ caller' = "analyze"
    /\ pc' = "bfs"
    /\ UNCHANGED <<data, graph, sample_size, centrality_scores>>

(* test_bfs_total_distance: bfs_total_distance(&graph, node) *)
CallBfs ==
    /\ GraphReady
    /\ \E s \in node_indices(graph) : BfsEnter(s)
    /\ caller' = "test"
    /\ pc' = "bfs"
    /\ UNCHANGED <<data, graph, sample_size, centrality_scores>>

(* visited.contains_key(&node) *)
contains_key(vis, node) == node \in vis

(* a variant of push_neighbors without the test on visited *)
RECURSIVE push_neighbors_unchecked(_, _, _, _)
push_neighbors_unchecked(q, es, vis, distance) ==
    IF es = <<>> THEN q
    ELSE push_neighbors_unchecked(
             Append(q, [node |-> Head(es).target,
                        distance |-> distance + Head(es).weight]),
             Tail(es), vis, distance)

(* the neighbours the loop over graph.edges(current_node) pushes *)
RECURSIVE push_neighbors(_, _, _, _)
push_neighbors(q, es, vis, distance) ==
    IF es = <<>> THEN q
    ELSE LET neighbor == Head(es).target
         IN  IF ~ contains_key(vis, neighbor)
             THEN push_neighbors(
                      Append(q, [node |-> neighbor,
                                 distance |-> distance + Head(es).weight]),
                      Tail(es), vis, distance)
             ELSE push_neighbors(q, Tail(es), vis, distance)

(* a variant of BfsSkip that adds the distance before it tests visited *)
BfsSkip_counting ==
    /\ pc = "bfs"
    /\ queue # <<>>
    /\ Head(queue).node \in visited
    /\ queue' = Tail(queue)
    /\ popped' = Append(popped, Head(queue))
    /\ total_distance' = total_distance + Head(queue).distance
    /\ UNCHANGED <<pc, data, graph, sample_size, centrality_scores, caller,
                   start_node, visited, marked>>

(* one turn of the while loop that ends in `continue` *)
BfsSkip ==
    /\ pc = "bfs"
    /\ queue # <<>>
    /\ contains_key(visited, Head(queue).node)
    /\ queue' = Tail(queue)
    /\ popped' = Append(popped, Head(queue))
    /\ UNCHANGED <<pc, data, graph, sample_size, centrality_scores, caller,
                   start_node, visited, total_distance, marked>>

(* one turn of the while loop that visits the node *)
BfsVisit ==
    /\ pc = "bfs"
    /\ queue # <<>>
    /\ ~ contains_key(visited, Head(queue).node)
    /\ LET current_node == Head(queue).node
           distance == Head(queue).distance
       IN  /\ visited' = visited \cup {current_node}
           /\ total_distance' = total_distance + distance
           /\ queue' = push_neighbors(Tail(queue), edges(graph, current_node),
                                      visited', distance)
           /\ popped' = Append(popped, Head(queue))
           /\ marked' = Append(marked, Head(queue))
    /\ UNCHANGED <<pc, data, graph, sample_size, centrality_scores, caller,
                   start_node>>

(* the queue is exhausted: bfs_total_distance returns total_distance *)
BfsExhausted == pc = "bfs" /\ queue = <<>>

(* ... to the test that called it *)
BfsReturn ==
    /\ BfsExhausted
    /\ caller = "test"
    /\ pc' = "done"
    /\ UNCHANGED <<data, graph, sample_size, centrality_scores, caller, bfs_vars>>

(* ... to the loop of analyze_centrality, which pushes the score *)
AnalyzeScore ==
    /\ BfsExhausted
    /\ caller = "analyze"
    /\ centrality_scores' =
          Append(centrality_scores, <<start_node, centrality(total_distance)>>)
    /\ pc' = "analyze"
    /\ UNCHANGED <<data, graph, sample_size, caller, bfs_vars>>

(* the loop of analyze_centrality is over: sort and return *)
AnalyzeReturn ==
    /\ pc = "analyze"
    /\ Len(centrality_scores) = take(graph, sample_size)
    /\ centrality_scores' = sort_by(centrality_scores)
    /\ pc' = "done"
    /\ UNCHANGED <<data, graph, sample_size, caller, bfs_vars>>

Next ==
    \/ ConstructGraph
    \/ TestAddNode
    \/ TestAddEdge
    \/ CallAnalyze
    \/ AnalyzeNode
    \/ CallBfs
    \/ BfsSkip
    \/ BfsVisit
    \/ BfsReturn
    \/ AnalyzeScore
    \/ AnalyzeReturn

Spec == Init /\ [][Next]_vars

(* the while loop of bfs_total_distance runs on as long as the queue holds *)
(* an entry                                                                *)
FairSpec == Spec /\ WF_vars(BfsSkip \/ BfsVisit)

-----------------------------------------------------------------------------
(* Properties.                                                             *)

(* construct_graph has just returned *)
Constructed == pc = "graph"

(* analyze_centrality has returned centrality_scores *)
Analyzed == pc = "done" /\ caller # "test"

(* the three records of test_construct_graph *)
ScenarioData ==
    <<Property(Some(CoordA[1]), Some(CoordA[2])),
      Property(Some(CoordB[1]), Some(CoordB[2])),
      Property(Some(CoordC[1]), Some(CoordC[2]))>>

(* the graph of test_bfs_total_distance: A -> B of 5.0, then B -> C of 7.0 *)
PathGraph ==
    add_edge(add_edge([nodes |-> TestCoords, edges |-> <<>>],
                      0, 1, 5 * UnitsPerKm),
             1, 2, 7 * UnitsPerKm)

Incident(g, n) == {k \in 1..Len(g.edges) : g.edges[k].source = n \/ g.edges[k].target = n}

(* the nodes a traversal can reach from the set S along the edges that     *)
(* Graph::edges yields                                                     *)
RECURSIVE Reachable(_, _)
Reachable(g, S) ==
    LET step == S \cup {g.edges[k].target :
                          k \in {l \in 1..Len(g.edges) : g.edges[l].source \in S}}
    IN  IF step = S THEN S ELSE Reachable(g, step)

(* the distance of the entry for node n that left the queue first *)
FirstDequeued(n) ==
    LET ks == {k \in 1..Len(popped) : popped[k].node = n}
        k0 == CHOOSE k \in ks : \A l \in ks : k <= l
    IN  popped[k0].distance

RECURSIVE SumFirstDequeued(_)
SumFirstDequeued(S) ==
    IF S = {} THEN 0
    ELSE LET n == CHOOSE m \in S : TRUE
         IN  FirstDequeued(n) + SumFirstDequeued(S \ {n})

(* C1: the graph is undirected for the traversal: on a graph where every   *)
(* node has an incident edge of positive weight (the three-node scenario   *)
(* graph is one), bfs_total_distance returns a strictly positive value     *)
(* from any start node.                                                    *)
C1_PositiveFromAnyNode ==
    (/\ BfsExhausted
     /\ \A n \in node_indices(graph) :
           \E k \in Incident(graph, n) : graph.edges[k].weight > 0)
      => total_distance > 0

(* C2: when bfs_total_distance returns, the nodes that left the queue are  *)
(* exactly the nodes reachable from the start, and the result is the sum   *)
(* over them of the distance of the entry dequeued first for each; on the  *)
(* graph A-B 5, B-C 7 the result from A is 17.                             *)
C2_SumOfFirstDequeued ==
    BfsExhausted =>
      /\ {popped[k].node : k \in 1..Len(popped)} = Reachable(graph, {start_node})
      /\ visited = Reachable(graph, {start_node})
      /\ total_distance = SumFirstDequeued(Reachable(graph, {start_node}))
      /\ (graph = PathGraph /\ start_node = 0) => total_distance = 17 * UnitsPerKm

(* a traversal has returned in which a node left the queue twice, first    *)
(* with the larger distance                                                *)
C2_Witness ==
    /\ BfsExhausted
    /\ \E i \in 1..Len(popped), j \in 1..Len(popped) :
          /\ i < j
          /\ popped[i].node = popped[j].node
          /\ popped[i].distance > popped[j].distance

(* the number of records with both coordinates among the first r records *)
Rank(r) == Cardinality({k \in 1..r : data[k].latitude # None /\ data[k].longitude # None})

(* C3: construct_graph makes one node per record with both coordinates and *)
(* none for the others; the nodes keep the input order and get the indices *)
(* 0, 1, 2, ...                                                            *)
C3_OneNodePerCompleteRecord ==
    Constructed =>
      /\ node_count(graph) = Rank(Len(data))
      /\ \A r \in 1..Len(data) :
            (data[r].latitude # None /\ data[r].longitude # None)
              => graph.nodes[Rank(r)] = <<data[r].latitude[1], data[r].longitude[1]>>

(* a graph built from three records of which the first lacks a coordinate *)
C3_Witness ==
    /\ Constructed
    /\ Len(data) = 3
    /\ data[1].longitude = None
    /\ data[2].latitude # None /\ data[2].longitude # None
    /\ data[3].latitude # None /\ data[3].longitude # None
    /\ data[2] # data[3]

Linked(g, i, j) ==
    \E k \in 1..Len(g.edges) :
       \/ g.edges[k].source = i /\ g.edges[k].target = j
       \/ g.edges[k].source = j /\ g.edges[k].target = i

(* C4: in the graph construct_graph returns, two nodes are linked by an    *)
(* edge if and only if their distance is <= 10 km (10 km included), and    *)
(* the weight of every edge is the distance of its end points.             *)
C4_EdgeIffWithinRadius ==
    Constructed =>
      /\ \A i \in node_indices(graph), j \in node_indices(graph) :
            i < j => (Linked(graph, i, j)
                        <=> haversine_distance(graph.nodes[i + 1], graph.nodes[j + 1])
                              <= 10 * UnitsPerKm)
      /\ \A k \in 1..Len(graph.edges) :
            graph.edges[k].weight =
               haversine_distance(graph.nodes[graph.edges[k].source + 1],
                                  graph.nodes[graph.edges[k].target + 1])

(* a graph with an edge of exactly 10 km and a pair of nodes without edge *)
C4_Witness ==
    /\ Constructed
    /\ \E k \in 1..Len(graph.edges) : graph.edges[k].weight = 10 * UnitsPerKm
    /\ \E i \in node_indices(graph), j \in node_indices(graph) :
          i < j /\ ~ Linked(graph, i, j)

(* C5: analyze_centrality(graph, k) returns one entry for each of the      *)
(* first min(k, node_count) node indices and nothing else; it returns the  *)
(* empty sequence when the graph has no node or k = 0.                     *)
C5_SamplePrefix ==
    Analyzed =>
      LET n == IF sample_size < node_count(graph) THEN sample_size
               ELSE node_count(graph)
      IN  /\ Len(centrality_scores) = n
          /\ {centrality_scores[k][1] : k \in 1..Len(centrality_scores)} = 0..(n - 1)
          /\ (node_count(graph) = 0 \/ sample_size = 0) => centrality_scores = <<>>

(* an analysis of a proper, non-empty prefix of the nodes *)
C5_Witness ==
    /\ Analyzed
    /\ 0 < sample_size
    /\ sample_size < node_count(graph)
    /\ Len(centrality_scores) = sample_size

(* C6: the sequence analyze_centrality returns is sorted by score,         *)
(* non-increasing.                                                         *)
C6_Descending ==
    Analyzed =>
      \A k \in 1..(Len(centrality_scores) - 1) :
         centrality_scores[k][2][1] * centrality_scores[k + 1][2][2]
            >= centrality_scores[k + 1][2][1] * centrality_scores[k][2][2]

(* a result in which the sort moved a later node before an earlier one *)
C6_Witness ==
    /\ Analyzed
    /\ \E k \in 1..(Len(centrality_scores) - 1) :
          /\ centrality_scores[k][1] > centrality_scores[k + 1][1]
          /\ centrality_scores[k][2] # centrality_scores[k + 1][2]

(* C7: every score is >= 0 and finite: it is 1 / total when                *)
(* bfs_total_distance returned a total > 0 and 0 otherwise; a node without *)
(* any edge scores exactly 0.                                              *)
C7_ScoresNonNegative ==
    /\ \A k \in 1..Len(centrality_scores) :
          /\ centrality_scores[k][2][1] >= 0
          /\ centrality_scores[k][2][2] > 0
          /\ Incident(graph, centrality_scores[k][1]) = {}
                => centrality_scores[k][2][1] = 0
    /\ (pc = "analyze" /\ centrality_scores # <<>>) =>
          centrality_scores[Len(centrality_scores)] =
             <<start_node,
               IF total_distance > 0 THEN <<UnitsPerKm, total_distance>>
               ELSE <<0, 1>>>>

(* a result with a node without edges, scored 0, and a node scored > 0 *)
C7_Witness ==
    /\ Analyzed
    /\ \E k \in 1..Len(centrality_scores) :
          /\ Incident(graph, centrality_scores[k][1]) = {}
          /\ centrality_scores[k][2][1] = 0
    /\ \E k \in 1..Len(centrality_scores) : centrality_scores[k][2][1] > 0

(* C8, as stated: the three scenario records are pairwise less than 10 km  *)
(* apart, so construct_graph yields 3 nodes and 3 edges.                   *)
C8_ScenarioTriangle ==
    (Constructed /\ data = ScenarioData) =>
      /\ node_count(graph) = 3
      /\ edge_count(graph) = 3

(* C8, amended: the first and the third scenario record are more than      *)
(* 10 km apart, so construct_graph yields 3 nodes and the 2 edges 0-1 and  *)
(* 1-2.                                                                    *)
C8_ScenarioPath ==
    (Constructed /\ data = ScenarioData) =>
      /\ node_count(graph) = 3
      /\ edge_count(graph) = 2
      /\ Linked(graph, 0, 1)
      /\ Linked(graph, 1, 2)
      /\ ~ Linked(graph, 0, 2)

(* the graph of the scenario has been built *)
C8_Witness == Constructed /\ data = ScenarioData /\ node_count(graph) = 3

(* C9: a graph construct_graph returns has no edge from a node to itself   *)
(* and at most one edge per unordered pair of nodes.                       *)
C9_SimpleGraph ==
    Constructed =>
      /\ \A k \in 1..Len(graph.edges) : graph.edges[k].source # graph.edges[k].target
      /\ \A k \in 1..Len(graph.edges), l \in 1..Len(graph.edges) :
            k # l => {graph.edges[k].source, graph.edges[k].target}
                        # {graph.edges[l].source, graph.edges[l].target}

(* a graph construct_graph built with at least two edges *)
C9_Witness == Constructed /\ edge_count(graph) >= 2

====
